---- MODULE Spec2Model ----
(***************************************************************************)
(* Link-resolution and merge engine of the URL shortener:                  *)
(*   services/storage.ts  - the persistent store (links in localStorage)   *)
(*   App.tsx              - initApp (merge, sort, routing), the hashchange *)
(*                          listener and the dashboard actions             *)
(*   unnamed/part_001     - the App module with the BOOTSTRAP / NOT_FOUND  *)
(*                          modes (second module of that file)             *)
(*   components/SettingsModal.tsx - CreateLinkModal.handleSubmit           *)
(* Strings that the code inspects character by character (the address     *)
(* fragment and the slugs) are sequences of character codes.  Optional     *)
(* values (null / undefined) are sequences of length 0 or 1.               *)
(***************************************************************************)
EXTENDS Integers, Sequences, FiniteSets, TLC

\* ------------------------------------------------------------------ bounds
MaxBaseLen == 2    \* longest baseline array returned by the fetch
MaxCreate  == 2    \* records created through the creation form
MaxTime    == 2    \* largest value of the clock Date.now()
MaxLoads   == 2    \* page loads (first load, reloads, re-openings)
MaxCalls   == 3    \* calls of the storage service made one after another
MaxUrlLen  == 3    \* longest text typed freely into the base URL field

\* ------------------------------------------------------- character codes
PCT  == 37   \* '%'

\* slugs: "a", "A", "%41"
SlugLowerA == <<97>>
SlugUpperA == <<65>>
SlugPct41  == <<37, 52, 49>>
\* slugs typed into the creation form
FormSlugs == {SlugLowerA, SlugPct41}

\* values of window.location.hash: "", "#a", "#%41", "#%4"
Hashes == { <<>>, <<35, 97>>, <<35, 37, 52, 49>>, <<35, 37, 52>> }

\* URLs typed into the creation form
FormUrls == {"https://x.com"}

Builds == {"App.tsx", "part_001"}

\* -------------------------------------------------------------- records
Link(i, s, u, t, c) ==
  [id |-> i, slug |-> s, originalUrl |-> u, createdAt |-> t, clicks |-> c]

\* records that the baseline file db.json may hold
BaselineRecords ==
  { Link(1, SlugLowerA, "https://x.com", 1, 0),
    Link(1, SlugUpperA, "https://y.org", 2, 5),
    Link(3, SlugLowerA, "https://y.org", 1, 0) }

SeqsUpTo(S, n) == UNION { [1..k -> S] : k \in 0..n }

\* baseline arrays: no record twice, but an id may occur in two records
Baselines ==
  { s \in SeqsUpTo(BaselineRecords, MaxBaseLen) :
      \A i, j \in 1..Len(s) : i # j => s[i] # s[j] }

\* what `await fetch('./db.json')` and `await response.json()` can produce
Resp(k, o, b, ls) == [kind |-> k, ok |-> o, body |-> b, links |-> ls]

Responses ==
  { Resp("throws", FALSE, "none", <<>>) }
    \cup { Resp("response", TRUE, "array", B) : B \in Baselines }
    \cup { Resp("response", FALSE, "array", <<b>>) : b \in BaselineRecords }
    \cup { Resp("response", FALSE, "notjson", <<>>) }
    \cup { Resp("response", TRUE, "notjson", <<>>) }
    \cup { Resp("response", TRUE, "nonarray", <<>>) }

\* ------------------------------------------------------ storage.ts
\* The value under STORAGE_KEY is kept as the array it encodes (`store`)
\* plus a flag telling whether JSON.parse accepts the text; an absent key
\* reads like the empty array.  SETTINGS_KEY likewise, the settings object
\* being the set of its <<key, value>> pairs and an absent key reading
\* like {}.
\* variant: getLinks without its try / catch
GetLinksNoCatch(dec, stored) == [threw |-> ~dec, val |-> stored]

\* getLinks: JSON.parse of the stored text, [] from the catch block
getLinks(dec, stored) ==
  IF dec THEN [threw |-> FALSE, val |-> stored]
         ELSE [threw |-> FALSE, val |-> <<>>]

\* getSettings: JSON.parse of the stored text, {} from the catch block
getSettings(dec, stored) ==
  IF dec THEN [threw |-> FALSE, val |-> stored]
         ELSE [threw |-> FALSE, val |-> {}]

Ids(seq) == { seq[i].id : i \in 1..Len(seq) }

\* links.findIndex(l => l.id === id), 0 when absent
FindIndex(seq, id) ==
  IF \E i \in 1..Len(seq) : seq[i].id = id
  THEN CHOOSE i \in 1..Len(seq) :
         seq[i].id = id /\ \A j \in 1..(i-1) : seq[j].id # id
  ELSE 0

\* variant: a save that pushes the record at the end, whatever the id
SaveLinkPush(stored, link) == Append(stored, link)

\* variant: a save that never looks for the id
SaveLinkAlwaysUnshift(stored, link) == <<link>> \o stored

saveLink(stored, link) ==
  LET existingIndex == FindIndex(stored, link.id)
  IN IF existingIndex > 0
     THEN [stored EXCEPT ![existingIndex] = link]
     ELSE <<link>> \o stored

\* variant: a delete that cuts the array at the first record with the id
DeleteLinkTruncate(stored, id) ==
  IF FindIndex(stored, id) > 0 THEN SubSeq(stored, 1, FindIndex(stored, id) - 1)
                               ELSE stored

deleteLink(stored, id) == SelectSeq(stored, LAMBDA l : l.id # id)

\* variant: an increment that bumps every record once the id is found
IncrementEveryRecord(stored, id) ==
  IF FindIndex(stored, id) > 0
  THEN [i \in 1..Len(stored) |-> [stored[i] EXCEPT !.clicks = @ + 1]]
  ELSE stored

\* variant: an increment that writes nothing
IncrementNothing(stored, id) == stored

\* variant: an increment that counts down
DecrementClicks(stored, id) ==
  IF FindIndex(stored, id) > 0
  THEN [stored EXCEPT ![FindIndex(stored, id)].clicks = @ - 1]
  ELSE stored

\* variant: an increment that creates the record it does not find
IncrementOrCreate(stored, id) ==
  IF FindIndex(stored, id) > 0
  THEN [stored EXCEPT ![FindIndex(stored, id)].clicks = @ + 1]
  ELSE << [id |-> id, slug |-> <<97>>, originalUrl |-> "https://x.com",
           createdAt |-> 1, clicks |-> 1] >> \o stored

incrementClicks(stored, id) ==
  LET i == FindIndex(stored, id)
  IN IF i > 0
     THEN saveLink(stored, [stored[i] EXCEPT !.clicks = @ + 1])
     ELSE stored

\* variant: a check that never finds the slug
SlugNeverExists(stored, slug) == FALSE

checkSlugExists(stored, slug) == \E i \in 1..Len(stored) : stored[i].slug = slug

\* ------------------------------------------------------ merge (initApp)
\* Map.prototype.set on an insertion-ordered map, kept as the sequence of
\* its values: an existing key keeps its position, a new key goes last
\* variant: a set that never finds the key
MapSetAppend(m, l) == Append(m, l)

\* variant: a set that deletes the key and inserts it anew
MapSetMoveToEnd(m, l) == Append(SelectSeq(m, LAMBDA x : x.id # l.id), l)

MapSet(m, l) ==
  LET i == FindIndex(m, l.id)
  IN IF i > 0 THEN [m EXCEPT ![i] = l] ELSE Append(m, l)

RECURSIVE ForEachSet(_, _)
ForEachSet(m, seq) ==
  IF seq = <<>> THEN m ELSE ForEachSet(MapSet(m, Head(seq)), Tail(seq))

\* one step of the stable sort with comparator (a, b) => b.createdAt - a.createdAt:
\* x is placed after every element that is not older than x
\* variant: a sort that places x before the elements of its own age
RECURSIVE InsertSortedUnstable(_, _)
InsertSortedUnstable(sorted, x) ==
  IF sorted = <<>> THEN <<x>>
  ELSE IF Head(sorted).createdAt - x.createdAt <= 0
       THEN <<x>> \o sorted
       ELSE <<Head(sorted)>> \o InsertSortedUnstable(Tail(sorted), x)

RECURSIVE InsertSorted(_, _)
InsertSorted(sorted, x) ==
  IF sorted = <<>> THEN <<x>>
  ELSE IF Head(sorted).createdAt - x.createdAt < 0
       THEN <<x>> \o sorted
       ELSE <<Head(sorted)>> \o InsertSorted(Tail(sorted), x)

RECURSIVE SortFrom(_, _)
SortFrom(acc, seq) ==
  IF seq = <<>> THEN acc ELSE SortFrom(InsertSorted(acc, Head(seq)), Tail(seq))

\* variant: the sort left out
NoSort(seq) == seq

SortNewestFirst(seq) == SortFrom(<<>>, seq)

\* variant: the two forEach loops in the other order
TryMergeBaselineWins(resp, mergedLinks) ==
  IF resp.kind = "throws" \/ ~resp.ok \/ resp.body # "array" THEN mergedLinks
  ELSE ForEachSet(ForEachSet(<<>>, mergedLinks), resp.links)

\* variant: the body is read without the test of response.ok
TryMergeIgnoringOk(resp, mergedLinks) ==
  IF resp.kind = "throws" \/ resp.body # "array" THEN mergedLinks
  ELSE ForEachSet(ForEachSet(<<>>, resp.links), mergedLinks)

\* variant: the snapshot taken before the fetch has settled
TryMergeNotAwaited(resp, mergedLinks) == mergedLinks

\* variant: baseline records are taken only for ids the local store holds
TryMergeLocalIdsOnly(resp, mergedLinks) ==
  IF resp.kind = "throws" \/ ~resp.ok \/ resp.body # "array" THEN mergedLinks
  ELSE ForEachSet(ForEachSet(<<>>, SelectSeq(resp.links,
                     LAMBDA l : \E k \in 1..Len(mergedLinks) : mergedLinks[k].id = l.id)),
                  mergedLinks)

\* the try block of initApp: the value of mergedLinks after it
TryMergeBaseline(resp, mergedLinks) ==
  IF resp.kind = "throws" THEN mergedLinks
  ELSE IF ~resp.ok THEN mergedLinks
  ELSE IF resp.body = "notjson" THEN mergedLinks
  ELSE IF resp.body = "nonarray" THEN mergedLinks
  ELSE ForEachSet(ForEachSet(<<>>, resp.links), mergedLinks)

\* ------------------------------------------------------ resolver (initApp)
IsHex(c) == c \in (48..57) \cup (65..70) \cup (97..102)
HexVal(c) == IF c \in 48..57 THEN c - 48 ELSE IF c \in 65..70 THEN c - 55 ELSE c - 87

\* s starts with a well-formed escape %XX
HasEscape(s) == Len(s) >= 3 /\ s[1] = PCT /\ IsHex(s[2]) /\ IsHex(s[3])
EscByte(s) == 16 * HexVal(s[2]) + HexVal(s[3])
AfterEscape(s) == SubSeq(s, 4, Len(s))

Decoded(v) == [ok |-> TRUE, val |-> v]
URIError == [ok |-> FALSE, val |-> <<>>]
Cons(c, r) == IF r.ok THEN Decoded(<<c>> \o r.val) ELSE URIError

\* decodeURIComponent: escapes are replaced by the character they encode
\* (one byte below 0x80, or a two-byte UTF-8 sequence); a '%' that does not
\* start a well-formed escape, or a byte that is no valid UTF-8, throws.
\* Three- and four-byte sequences do not occur in Hashes.
\* variant: the fragment compared as it stands
NoDecode(s) == Decoded(s)

RECURSIVE decodeURIComponent(_)
decodeURIComponent(s) ==
  IF s = <<>> THEN Decoded(<<>>)
  ELSE IF Head(s) # PCT THEN Cons(Head(s), decodeURIComponent(Tail(s)))
  ELSE IF ~HasEscape(s) THEN URIError
  ELSE IF EscByte(s) < 128
       THEN Cons(EscByte(s), decodeURIComponent(AfterEscape(s)))
  ELSE IF /\ EscByte(s) \in 194..223
          /\ HasEscape(AfterEscape(s))
          /\ EscByte(AfterEscape(s)) \in 128..191
       THEN Cons((EscByte(s) - 192) * 64 + (EscByte(AfterEscape(s)) - 128),
                 decodeURIComponent(AfterEscape(AfterEscape(s))))
  ELSE URIError

\* window.location.hash.substring(1)
Substring1(h) == IF h = <<>> THEN <<>> ELSE Tail(h)

\* variant: the test of the fragment left out
AlwaysTruthy(s) == TRUE

\* `if (rawHash)`: a string is truthy when it is not empty
Truthy(s) == s # <<>>

\* variant: the last match instead of the first
FindLast(seq, slug) ==
  IF \E i \in 1..Len(seq) : seq[i].slug = slug
  THEN << seq[CHOOSE i \in 1..Len(seq) :
               seq[i].slug = slug /\ \A j \in (i+1)..Len(seq) : seq[j].slug # slug] >>
  ELSE <<>>

\* mergedLinks.find(l => l.slug === hash): the first match, or undefined
Find(seq, slug) ==
  IF \E i \in 1..Len(seq) : seq[i].slug = slug
  THEN << seq[CHOOSE i \in 1..Len(seq) :
               seq[i].slug = slug /\ \A j \in 1..(i-1) : seq[j].slug # slug] >>
  ELSE <<>>

\* variant: a navigation that pushes a history entry
LocationAssign(url) == [url |-> url, how |-> "assign"]

\* window.location.replace(url)
LocationReplace(url) == [url |-> url, how |-> "replace"]

\* ------------------------------------------------------------------ state
VARIABLES
  build,        \* which App module is running
  store,        \* localStorage[STORAGE_KEY], decoded: the local store's records
  hash,         \* window.location.hash
  mode,         \* React state `mode`
  links,        \* React state `links`
  redirectData, \* React state `redirectData`
  error,        \* CreateLinkModal state `error`
  pc,           \* position of initApp: "fetching", "done" or "rejected"
  mergedLinks,  \* initApp's local variable mergedLinks
  localRead,    \* what getLinks() returned at the start of initApp
  resp,         \* the settled fetch of this run, if any
  resolved,     \* mergedLinks.find has run in this run
  match,        \* its result
  incCalls,     \* calls of incrementClicks in this run
  timer,        \* the pending setTimeout callback's destination
  navigated,    \* the navigation performed by this page
  loads,        \* page loads so far
  nextId,       \* ids handed out by crypto.randomUUID()
  now,          \* Date.now()
  decodable,    \* whether JSON.parse accepts the text under each storage key
  settingsStore,\* the settings object under SETTINGS_KEY
  ret,          \* the last call of the storage service and what it returned
  hist,         \* per id: the record last saved and the increments since
  calls,        \* calls of the storage service so far
  loadedSettings, \* initApp's constant loadedSettings
  effects,      \* side effects of this run's redirect branch, in order
  navs,         \* per id: navigations performed for a record of the local store
  form          \* SettingsModal state: the texts customUrl and gaId

vars == << build, store, hash, mode, links, redirectData, error, pc, mergedLinks,
           localRead, resp, resolved, match, incCalls, timer, navigated, loads,
           nextId, now, decodable, settingsStore, ret, hist, calls,
           loadedSettings, effects, navs, form >>

\* what the application's actions leave alone: they find the stored text
\* decodable, and the storage service is driven directly only in StoreSpec
storeVars == << decodable, settingsStore, ret, hist, calls >>

\* modes: App.tsx calls them LOADING and REDIRECTING, part_001 BOOTSTRAP and
\* REDIRECT_PROCESS; App.tsx has no NOT_FOUND
Modes == {"BOOTSTRAP", "DASHBOARD", "REDIRECT_PROCESS", "NOT_FOUND"}

\* ------------------------------------------ SettingsModal.handleSubmit
\* Texts of the settings form are sequences of character codes:
\* ' ' 32, '/' 47, ':' 58, 'a' 97, 'g' 103, 'h' 104, 'p' 112, 's' 115, 't' 116
SPACE == 32
SLASH == 47
Http == <<104, 116, 116, 112>>                       \* "http"
HttpScheme == <<104, 116, 116, 112, 58, 47, 47>>     \* "http://"
HttpsScheme == <<104, 116, 116, 112, 115, 58, 47, 47>>  \* "https://"
HttpA == HttpScheme \o <<97>>                        \* "http://a"

StartsWith(s, prefix) ==
  Len(s) >= Len(prefix) /\ SubSeq(s, 1, Len(prefix)) = prefix

EndsWith(s, c) == s # <<>> /\ s[Len(s)] = c

RECURSIVE TrimStart(_)
TrimStart(s) == IF s # <<>> /\ Head(s) = SPACE THEN TrimStart(Tail(s)) ELSE s

RECURSIVE TrimEnd(_)
TrimEnd(s) ==
  IF EndsWith(s, SPACE) THEN TrimEnd(SubSeq(s, 1, Len(s) - 1)) ELSE s

\* String.prototype.trim
Trim(s) == TrimEnd(TrimStart(s))

\* String.prototype.toUpperCase on these characters
ToUpperCase(s) == [i \in 1..Len(s) |-> IF s[i] \in 97..122 THEN s[i] - 32 ELSE s[i]]

\* cleanedUrl of handleSubmit: trimmed, one trailing '/' sliced off,
\* "https://" put in front unless empty or starting with "http"
CleanedUrl(customUrl) ==
  LET trimmed == Trim(customUrl)
      sliced  == IF EndsWith(trimmed, SLASH)
                 THEN SubSeq(trimmed, 1, Len(trimmed) - 1) ELSE trimmed
  IN IF sliced # <<>> /\ ~StartsWith(sliced, Http)
     THEN HttpsScheme \o sliced ELSE sliced

\* cleanedGa of handleSubmit
CleanedGa(gaId) == ToUpperCase(Trim(gaId))

\* texts typed into the base URL field: every text of up to MaxUrlLen
\* characters among ' ', '/' and 'a', and some that start with "http"
UrlInputs ==
  SeqsUpTo({SPACE, SLASH, 97}, MaxUrlLen)
    \cup { HttpA, HttpsScheme \o <<97, SLASH>>, Http \o <<97>>,
           <<SPACE>> \o HttpA \o <<SLASH, SPACE>> }

\* texts typed into the analytics id field: "", "g", " g "
GaInputs == { <<>>, <<103>>, <<SPACE, 103, SPACE>> }

\* the ids the storage service is called with, and the records saved
StoreIds == 1..3
StoreRecords == { Link(i, s, "https://x.com", 1, 0) : i \in StoreIds, s \in FormSlugs }

\* settings objects: {} and one with customBaseUrl set
SettingsValues == { {}, { <<"customBaseUrl", HttpA>> } }

Ret(op, id, threw, ls, b, st) ==
  [op |-> op, id |-> id, threw |-> threw, links |-> ls, bool |-> b, settings |-> st]

NoCall == Ret("none", 0, FALSE, <<>>, FALSE, {})

\* no call made yet on a store that holds the records of seq
HistOf(seq) ==
  [id \in StoreIds |->
     IF id \in Ids(seq) THEN [link |-> << seq[FindIndex(seq, id)] >>, n |-> 0]
                        ELSE [link |-> <<>>, n |-> 0]]

\* loadedSettings.googleAnalyticsId, empty when the settings do not have it
GoogleAnalyticsId(settings) ==
  IF \E p \in settings : p[1] = "googleAnalyticsId"
  THEN (CHOOSE p \in settings : p[1] = "googleAnalyticsId")[2]
  ELSE <<>>

\* the side effects of the redirect branch, in the order of its statements:
\* part_001 calls trackRedirect between the two others when an analytics id
\* is set (initGA has then defined window.gtag); App.tsx never does
RedirectEffects(b, settings) ==
  <<"incrementClicks">>
    \o (IF b = "part_001" /\ GoogleAnalyticsId(settings) # <<>>
        THEN <<"trackRedirect">> ELSE <<>>)
    \o <<"setTimeout">>

\* useState('') of both fields
EmptyForm == [customUrl |-> <<>>, gaId |-> <<>>]

\* the component mounts: state initialisers, then the effect runs initApp up
\* to `await fetch`
Mount(h) ==
  /\ hash' = h
  /\ mode' = "BOOTSTRAP"
  /\ links' = <<>>
  /\ redirectData' = <<>>
  /\ error' = ""
  /\ pc' = "fetching"
  /\ mergedLinks' = store
  /\ localRead' = store
  /\ resp' = <<>>
  /\ resolved' = FALSE
  /\ match' = <<>>
  /\ incCalls' = 0
  /\ timer' = <<>>
  /\ navigated' = <<>>
  /\ loadedSettings' = getSettings(decodable.settings, settingsStore).val
  /\ effects' = <<>>

Init ==
  /\ build \in Builds
  /\ store = <<>>
  /\ hash \in Hashes
  /\ mode = "BOOTSTRAP"
  /\ links = <<>>
  /\ redirectData = <<>>
  /\ error = ""
  /\ pc = "fetching"
  /\ mergedLinks = <<>>
  /\ localRead = <<>>
  /\ resp = <<>>
  /\ resolved = FALSE
  /\ match = <<>>
  /\ incCalls = 0
  /\ timer = <<>>
  /\ navigated = <<>>
  /\ loads = 1
  /\ nextId = 1
  /\ now = 1
  /\ decodable = [links |-> TRUE, settings |-> TRUE]
  /\ settingsStore = {}
  /\ ret = NoCall
  /\ hist = HistOf(<<>>)
  /\ calls = 0
  /\ loadedSettings = {}
  /\ effects = <<>>
  /\ navs = [i \in 1..3 |-> 0]
  /\ form = EmptyForm

\* the user opens (or reloads) the application at fragment h
Open(h) ==
  /\ UNCHANGED << storeVars, navs, form >>
  /\ loads < MaxLoads
  /\ Mount(h)
  /\ loads' = loads + 1
  /\ UNCHANGED << build, store, nextId, now >>

\* handleRuntimeHashChange: the fragment of the live page changes to h
HashChange(h) ==
  /\ UNCHANGED << storeVars, navs, form >>
  /\ navigated = <<>>
  /\ h # hash
  /\ IF Truthy(Substring1(h))
     THEN /\ loads < MaxLoads
          /\ Mount(h)
          /\ loads' = loads + 1
          /\ UNCHANGED << build, store, nextId, now >>
     ELSE /\ hash' = h
          /\ UNCHANGED << build, store, mode, links, redirectData, error, pc,
                          mergedLinks, localRead, resp, resolved, match, incCalls,
                          timer, navigated, loads, nextId, now,
                          loadedSettings, effects >>

\* initApp from the settled fetch to its end
InitAppResume(r) ==
  /\ UNCHANGED << storeVars, navs, form >>
  /\ pc = "fetching"
  /\ navigated = <<>>
  /\ LET sorted  == SortNewestFirst(TryMergeBaseline(r, mergedLinks))
         rawHash == Substring1(hash)
         dec     == decodeURIComponent(rawHash)
         found   == Find(sorted, dec.val)
     IN /\ resp' = <<r>>
        /\ mergedLinks' = sorted
        /\ links' = sorted
        /\ IF Truthy(rawHash) /\ ~dec.ok
           THEN \* decodeURIComponent throws: initApp rejects
                /\ pc' = "rejected"
                /\ UNCHANGED << mode, redirectData, resolved, match, incCalls,
                                timer, store, effects >>
           ELSE IF Truthy(rawHash) /\ found # <<>>
           THEN /\ pc' = "done"
                /\ resolved' = TRUE
                /\ match' = found
                /\ redirectData' = << [target |-> found[1].originalUrl,
                                       slug |-> found[1].slug] >>
                /\ mode' = "REDIRECT_PROCESS"
                /\ store' = incrementClicks(store, found[1].id)
                /\ incCalls' = incCalls + 1
                /\ timer' = << found[1].originalUrl >>
                /\ effects' = RedirectEffects(build, loadedSettings)
           ELSE /\ pc' = "done"
                /\ resolved' = Truthy(rawHash)
                /\ mode' = IF Truthy(rawHash) /\ build = "part_001"
                           THEN "NOT_FOUND" ELSE "DASHBOARD"
                /\ UNCHANGED << redirectData, match, incCalls, timer, store,
                                effects >>
  /\ UNCHANGED << build, hash, error, localRead, navigated, loads, nextId, now,
                  loadedSettings >>

\* the setTimeout callback of the redirect branch
TimerFire ==
  /\ UNCHANGED << storeVars, form >>
  /\ timer # <<>>
  /\ navigated = <<>>
  /\ navigated' = << LocationReplace(timer[1]) >>
  /\ timer' = <<>>
  /\ effects' = Append(effects, "replace")
  /\ navs' = IF match[1].id \in Ids(store)
             THEN [navs EXCEPT ![match[1].id] = @ + 1] ELSE navs
  /\ UNCHANGED << build, store, hash, mode, links, redirectData, error, pc,
                  mergedLinks, localRead, resp, resolved, match, incCalls, loads,
                  nextId, now, loadedSettings >>

\* refreshLinks: the value setLinks computes from prev and getLinks()
refreshLinks(prev, local) ==
  SortNewestFirst(ForEachSet(ForEachSet(<<>>, prev), local))

DashboardShown == mode = "DASHBOARD" /\ pc = "done" /\ navigated = <<>>

\* CreateLinkModal.handleSubmit followed by App.handleCreate
HandleSubmit(slug, url, t) ==
  /\ UNCHANGED << storeVars, navs, form >>
  /\ DashboardShown
  /\ nextId <= MaxCreate
  /\ t \in {now, now + 1} /\ t <= MaxTime
  /\ now' = t
  /\ IF checkSlugExists(store, slug)
     THEN /\ error' = "This short code is already taken. Try regenerating."
          /\ UNCHANGED << store, links, nextId >>
     ELSE LET newLink == Link(nextId, slug, url, t, 0)
          IN /\ error' = ""
             /\ store' = saveLink(store, newLink)
             /\ links' = refreshLinks(links, store')
             /\ nextId' = nextId + 1
  /\ UNCHANGED << build, hash, mode, redirectData, pc, mergedLinks, localRead,
                  resp, resolved, match, incCalls, timer, navigated, loads,
                  loadedSettings, effects >>

\* App.handleDelete, confirmed, on a card of the dashboard
HandleDelete(id) ==
  /\ UNCHANGED << storeVars, navs, form >>
  /\ DashboardShown
  /\ id \in Ids(links)
  /\ store' = deleteLink(store, id)
  /\ links' = refreshLinks(links, store')
  /\ UNCHANGED << build, hash, mode, redirectData, error, pc, mergedLinks,
                  localRead, resp, resolved, match, incCalls, timer, navigated,
                  loads, nextId, now, loadedSettings, effects >>

Next ==
  \/ \E h \in Hashes : Open(h)
  \/ \E h \in Hashes : HashChange(h)
  \/ \E r \in Responses : InitAppResume(r)
  \/ TimerFire
  \/ \E s \in FormSlugs, u \in FormUrls, t \in 1..MaxTime : HandleSubmit(s, u, t)
  \/ \E i \in 1..3 : HandleDelete(i)

Spec == Init /\ [][Next]_vars

TypeOK ==
  /\ build \in Builds
  /\ mode \in Modes
  /\ pc \in {"fetching", "done", "rejected"}
  /\ hash \in Hashes
  /\ loads \in 1..MaxLoads
  /\ Len(match) <= 1 /\ Len(timer) <= 1 /\ Len(navigated) <= 1 /\ Len(resp) <= 1

\* ------------------------------------------------- a returning visitor
\* The application opened in a browser that already holds one record in
\* its local store and possibly an analytics id in its settings.
ReturningStore == << Link(1, SlugLowerA, "https://x.com", 1, 0) >>

AnalyticsSettings == { {}, { <<"googleAnalyticsId", <<71>> >> } }

ReturningInit ==
  /\ build \in Builds
  /\ store = ReturningStore
  /\ hash \in Hashes
  /\ mode = "BOOTSTRAP"
  /\ links = <<>>
  /\ redirectData = <<>>
  /\ error = ""
  /\ pc = "fetching"
  /\ mergedLinks = ReturningStore
  /\ localRead = ReturningStore
  /\ resp = <<>>
  /\ resolved = FALSE
  /\ match = <<>>
  /\ incCalls = 0
  /\ timer = <<>>
  /\ navigated = <<>>
  /\ loads = 1
  /\ nextId = 2
  /\ now = 1
  /\ decodable = [links |-> TRUE, settings |-> TRUE]
  /\ settingsStore \in AnalyticsSettings
  /\ ret = NoCall
  /\ hist = HistOf(<<>>)
  /\ calls = 0
  /\ loadedSettings = settingsStore
  /\ effects = <<>>
  /\ navs = [i \in 1..3 |-> 0]
  /\ form = EmptyForm

ReturningSpec == ReturningInit /\ [][Next]_vars

\* --------------------------------------------------- the settings form
\* The dashboard after a bootstrap without fragment whose fetch failed,
\* with the settings dialog open and some text typed into its two fields.
SettingsInit ==
  /\ build \in Builds
  /\ store = <<>>
  /\ hash = <<>>
  /\ mode = "DASHBOARD"
  /\ links = <<>>
  /\ redirectData = <<>>
  /\ error = ""
  /\ pc = "done"
  /\ mergedLinks = <<>>
  /\ localRead = <<>>
  /\ resp = << Resp("throws", FALSE, "none", <<>>) >>
  /\ resolved = FALSE
  /\ match = <<>>
  /\ incCalls = 0
  /\ timer = <<>>
  /\ navigated = <<>>
  /\ loads = 1
  /\ nextId = 1
  /\ now = 1
  /\ decodable = [links |-> TRUE, settings |-> TRUE]
  /\ settingsStore = {}
  /\ ret = NoCall
  /\ hist = HistOf(<<>>)
  /\ calls = 0
  /\ loadedSettings = {}
  /\ effects = <<>>
  /\ navs = [i \in 1..3 |-> 0]
  /\ form \in [customUrl : UrlInputs, gaId : GaInputs]

\* what the settings dialog leaves alone
notSettings == << build, store, hash, mode, links, redirectData, error, pc,
                 mergedLinks, localRead, resp, resolved, match, incCalls, timer,
                 navigated, loads, nextId, now, ret, hist, calls, loadedSettings,
                 effects, navs >>

\* SettingsModal.handleSubmit, then App.handleSaveSettings: the object
\* { ...settings, customBaseUrl, googleAnalyticsId } is stored
SettingsHandleSubmit ==
  /\ DashboardShown
  /\ settingsStore' = { <<"customBaseUrl", CleanedUrl(form.customUrl)>>,
                        <<"googleAnalyticsId", CleanedGa(form.gaId)>> }
  /\ decodable' = [decodable EXCEPT !.settings = TRUE]
  /\ UNCHANGED << notSettings, form >>

\* SettingsModal.handleClear: both keys undefined, which JSON.stringify
\* leaves out, and both fields emptied
SettingsHandleClear ==
  /\ DashboardShown
  /\ settingsStore' = {}
  /\ decodable' = [decodable EXCEPT !.settings = TRUE]
  /\ form' = EmptyForm
  /\ UNCHANGED notSettings

SettingsNext == SettingsHandleSubmit \/ SettingsHandleClear

SettingsSpec == SettingsInit /\ [][SettingsNext]_vars

\* ------------------------------------------- the storage service alone
\* The functions of services/storage.ts called one after another on a
\* store that holds zero, one or two records, whose text may be damaged.
InitialStores ==
  { <<>>,
    << Link(1, SlugLowerA, "https://x.com", 1, 0) >>,
    << Link(2, SlugPct41, "https://x.com", 1, 0),
       Link(1, SlugLowerA, "https://x.com", 1, 0) >> }

StoreInit ==
  /\ build = "App.tsx"
  /\ store \in InitialStores
  /\ hash = <<>>
  /\ mode = "BOOTSTRAP"
  /\ links = <<>>
  /\ redirectData = <<>>
  /\ error = ""
  /\ pc = "fetching"
  /\ mergedLinks = <<>>
  /\ localRead = <<>>
  /\ resp = <<>>
  /\ resolved = FALSE
  /\ match = <<>>
  /\ incCalls = 0
  /\ timer = <<>>
  /\ navigated = <<>>
  /\ loads = 1
  /\ nextId = 1
  /\ now = 1
  /\ decodable \in [links : BOOLEAN, settings : BOOLEAN]
  /\ settingsStore \in SettingsValues
  /\ ret = NoCall
  /\ hist = HistOf(getLinks(decodable.links, store).val)
  /\ calls = 0
  /\ loadedSettings = {}
  /\ effects = <<>>
  /\ navs = [i \in 1..3 |-> 0]
  /\ form = EmptyForm

appVars == << build, hash, mode, links, redirectData, error, pc, mergedLinks,
              localRead, resp, resolved, match, incCalls, timer, navigated,
              loads, nextId, now, loadedSettings, effects, navs, form >>

\* one more call of the service; the application itself stands still
StoreCall ==
  /\ calls < MaxCalls
  /\ calls' = calls + 1
  /\ UNCHANGED appVars

\* localStorage.setItem(STORAGE_KEY, JSON.stringify(newLinks))
SetLinks(newLinks) ==
  /\ store' = newLinks
  /\ decodable' = [decodable EXCEPT !.links = TRUE]

\* a call that ends in the exception its read let through
Threw(op, id) ==
  /\ ret' = Ret(op, id, TRUE, <<>>, FALSE, {})
  /\ UNCHANGED << store, decodable, settingsStore, hist >>

StoreGetLinks ==
  /\ StoreCall
  /\ LET g == getLinks(decodable.links, store)
     IN ret' = Ret("getLinks", 0, g.threw, g.val, FALSE, {})
  /\ UNCHANGED << store, decodable, settingsStore, hist >>

StoreSaveLink(link) ==
  /\ StoreCall
  /\ LET g == getLinks(decodable.links, store)
     IN IF g.threw THEN Threw("saveLink", link.id)
        ELSE /\ SetLinks(saveLink(g.val, link))
             /\ ret' = Ret("saveLink", link.id, FALSE, g.val, FALSE, {})
             /\ hist' = [hist EXCEPT ![link.id] = [link |-> <<link>>, n |-> 0]]
             /\ UNCHANGED settingsStore

StoreDeleteLink(id) ==
  /\ StoreCall
  /\ LET g == getLinks(decodable.links, store)
     IN IF g.threw THEN Threw("deleteLink", id)
        ELSE /\ SetLinks(deleteLink(g.val, id))
             /\ ret' = Ret("deleteLink", id, FALSE, g.val, FALSE, {})
             /\ hist' = [hist EXCEPT ![id] = [link |-> <<>>, n |-> 0]]
             /\ UNCHANGED settingsStore

\* incrementClicks writes (through saveLink) only when it found the id,
\* which is exactly when the array it computes differs from the one read
StoreIncrementClicks(id) ==
  /\ StoreCall
  /\ LET g   == getLinks(decodable.links, store)
         new == incrementClicks(g.val, id)
     IN IF g.threw THEN Threw("incrementClicks", id)
        ELSE /\ IF new # g.val THEN SetLinks(new)
                               ELSE UNCHANGED << store, decodable >>
             /\ ret' = Ret("incrementClicks", id, FALSE, g.val, FALSE, {})
             /\ hist' = IF id \in Ids(g.val)
                        THEN [hist EXCEPT ![id].n = @ + 1] ELSE hist
             /\ UNCHANGED settingsStore

StoreCheckSlugExists(slug) ==
  /\ StoreCall
  /\ LET g == getLinks(decodable.links, store)
     IN ret' = Ret("checkSlugExists", 0, g.threw, g.val,
                   ~g.threw /\ checkSlugExists(g.val, slug), {})
  /\ UNCHANGED << store, decodable, settingsStore, hist >>

StoreGetSettings ==
  /\ StoreCall
  /\ LET g == getSettings(decodable.settings, settingsStore)
     IN ret' = Ret("getSettings", 0, g.threw, <<>>, FALSE, g.val)
  /\ UNCHANGED << store, decodable, settingsStore, hist >>

\* saveSettings: localStorage.setItem(SETTINGS_KEY, JSON.stringify(settings))
StoreSaveSettings(v) ==
  /\ StoreCall
  /\ settingsStore' = v
  /\ decodable' = [decodable EXCEPT !.settings = TRUE]
  /\ ret' = Ret("saveSettings", 0, FALSE, <<>>, FALSE, {})
  /\ UNCHANGED << store, hist >>

StoreNext ==
  \/ StoreGetLinks
  \/ \E link \in StoreRecords : StoreSaveLink(link)
  \/ \E id \in StoreIds : StoreDeleteLink(id)
  \/ \E id \in StoreIds : StoreIncrementClicks(id)
  \/ \E slug \in FormSlugs : StoreCheckSlugExists(slug)
  \/ StoreGetSettings
  \/ \E v \in SettingsValues : StoreSaveSettings(v)

StoreSpec == StoreInit /\ [][StoreNext]_vars

\* what getLinks returns in this state
Stored == getLinks(decodable.links, store).val

\* =================================================================== claims
\* the baseline of the current run: the array of a successful fetch, empty
\* when the fetch did not succeed
FetchSucceeded(r) == r.kind = "response" /\ r.ok /\ r.body = "array"
Bootstrapped == resp # <<>>
B == IF Bootstrapped /\ FetchSucceeded(resp[1]) THEN resp[1].links ELSE <<>>
L == localRead

\* initApp passes its await in this step
Resumes == resp = <<>> /\ resp' # <<>>

FirstPos(seq, id) ==
  CHOOSE i \in 1..Len(seq) : seq[i].id = id /\ \A j \in 1..(i-1) : seq[j].id # id

FirstSlugPos(seq, slug) ==
  CHOOSE i \in 1..Len(seq) : seq[i].slug = slug /\ \A j \in 1..(i-1) : seq[j].slug # slug

HasSlug(seq, slug) == \E i \in 1..Len(seq) : seq[i].slug = slug

RepeatsId(seq) == \E i, j \in 1..Len(seq) : i # j /\ seq[i].id = seq[j].id

\* the text each well-formed fragment of Hashes stands for: "#a" is "a",
\* "#%41" is "A"
ExpectedText ==
  ( <<35, 97>> :> <<97>> ) @@ ( <<35, 37, 52, 49>> :> <<65>> )

\* "#%4": a '%' without two hexadecimal digits
MalformedHashes == { <<35, 37, 52>> }

\* C1: the merged view computed at bootstrap holds exactly the ids of the
\* baseline and of the local store, each id once
C1_MergedIdsExact ==
  Bootstrapped =>
    /\ Ids(mergedLinks) = Ids(B) \cup Ids(L)
    /\ ~RepeatsId(mergedLinks)

C1_Witness ==
  /\ Bootstrapped
  /\ RepeatsId(B)
  /\ Ids(B) \cap Ids(L) # {}
  /\ Ids(L) \ Ids(B) # {}

\* C2: local wins: for an id of both sources the merged record is the local
\* store's record, field by field
C2_LocalWins ==
  Bootstrapped =>
    \A i \in 1..Len(mergedLinks) : \A k \in 1..Len(L) :
      (mergedLinks[i].id = L[k].id /\ L[k].id \in Ids(B)) => mergedLinks[i] = L[k]

C2_Witness ==
  /\ Bootstrapped
  /\ \E i \in 1..Len(B), k \in 1..Len(L) :
       /\ B[i].id = L[k].id
       /\ B[i].slug # L[k].slug
       /\ B[i].originalUrl # L[k].originalUrl
       /\ B[i].createdAt # L[k].createdAt
       /\ B[i].clicks # L[k].clicks

\* C3: the merged view is sorted by createdAt, newest first
C3_SortedNewestFirst ==
  Bootstrapped =>
    \A i \in 1..(Len(mergedLinks) - 1) :
      mergedLinks[i].createdAt >= mergedLinks[i + 1].createdAt

C3_Witness ==
  /\ Bootstrapped
  /\ Len(B) = 2 /\ B[1].id # B[2].id /\ B[1].createdAt < B[2].createdAt
  /\ L # <<>>

\* C4: records of equal createdAt keep the order of first insertion into
\* the id map: baseline ids in baseline order, then local-only ids in
\* local-store order
InsertionRank(id) ==
  IF id \in Ids(B) THEN FirstPos(B, id) ELSE Len(B) + FirstPos(L, id)

C4_TiesByInsertion ==
  Bootstrapped =>
    \A i, j \in 1..Len(mergedLinks) :
      (i < j /\ mergedLinks[i].createdAt = mergedLinks[j].createdAt)
        => InsertionRank(mergedLinks[i].id) < InsertionRank(mergedLinks[j].id)

C4_Witness ==
  /\ Bootstrapped
  /\ Len(mergedLinks) = 3
  /\ mergedLinks[1].createdAt = mergedLinks[3].createdAt
  /\ mergedLinks[1].id \in Ids(B) \cap Ids(L)
  /\ mergedLinks[2].id \in Ids(B) \ Ids(L)
  /\ mergedLinks[3].id \in Ids(L) \ Ids(B)

\* C5: merging the merged view, as the baseline, with the same local store
\* again gives the same sequence
C5_MergeIdempotent ==
  Bootstrapped =>
    SortNewestFirst(TryMergeBaseline(Resp("response", TRUE, "array", mergedLinks), L))
      = mergedLinks

C5_Witness ==
  /\ Bootstrapped
  /\ Len(mergedLinks) >= 2
  /\ mergedLinks[1].createdAt = mergedLinks[2].createdAt
  /\ Ids(B) \cap Ids(L) # {}
  /\ Ids(B) \ Ids(L) # {}

\* C6: when the fetch throws, is not ok, or its body is no JSON array, the
\* merged view is the local store sorted newest first, and initApp runs to
\* its end unless the fragment itself cannot be decoded
C6_FetchFailureTolerated ==
  [][ (Resumes /\ ~FetchSucceeded(resp'[1])) =>
        /\ mergedLinks' = SortNewestFirst(L)
        /\ links' = mergedLinks'
        /\ (pc' = "done" \/ hash \in MalformedHashes) ]_vars

C6_Witness ==
  /\ Bootstrapped
  /\ ~FetchSucceeded(resp[1])
  /\ resp[1].links # <<>>
  /\ L # <<>>
  /\ pc = "done"

\* C7: among several records of the same slug the resolver returns the first
\* in snapshot order, and the run is a redirect, not an error
C7_FirstMatchWins ==
  match # <<>> =>
    /\ match[1] = mergedLinks[FirstSlugPos(mergedLinks, match[1].slug)]
    /\ mode = "REDIRECT_PROCESS"
    /\ pc = "done"

C7_Witness ==
  /\ match # <<>>
  /\ \E i, j \in 1..Len(mergedLinks) :
       i < j /\ mergedLinks[i].slug = match[1].slug /\ mergedLinks[j].slug = match[1].slug

\* C8: a non-empty fragment resolves to a record exactly when a record's slug
\* equals the percent-decoded fragment, and the record found has that slug
C8_ExactDecodedMatch ==
  (Bootstrapped /\ hash \in DOMAIN ExpectedText) =>
    /\ pc = "done" /\ resolved
    /\ (match # <<>>) <=> HasSlug(mergedLinks, ExpectedText[hash])
    /\ match # <<>> => match[1].slug = ExpectedText[hash]

C8_Witness ==
  /\ Bootstrapped
  /\ hash = <<35, 37, 52, 49>>
  /\ HasSlug(mergedLinks, SlugPct41)
  /\ HasSlug(mergedLinks, SlugLowerA)
  /\ match = <<>>

\* C9: with an empty fragment initApp ends in DASHBOARD without resolving,
\* without touching the store and without scheduling a navigation
C9_EmptyFragmentDashboard ==
  [][ (Resumes /\ hash = <<>>) =>
        /\ mode' = "DASHBOARD" /\ pc' = "done"
        /\ ~resolved' /\ match' = <<>> /\ redirectData' = <<>>
        /\ incCalls' = 0 /\ store' = store
        /\ timer' = <<>> /\ navigated' = <<>> ]_vars

C9_Witness ==
  /\ Bootstrapped
  /\ hash = <<>> /\ ~resolved
  /\ mode = "DASHBOARD"
  /\ L # <<>>
  /\ B # <<>>

\* C10: a fragment that matches enters REDIRECT_PROCESS with the first
\* matching record's originalUrl as target, and the navigation performed is
\* a replace to that target
C10_RedirectTarget ==
  [][ /\ (Resumes /\ hash \in DOMAIN ExpectedText
                  /\ HasSlug(mergedLinks', ExpectedText[hash])) =>
           LET rec == mergedLinks'[FirstSlugPos(mergedLinks', ExpectedText[hash])]
           IN /\ mode' = "REDIRECT_PROCESS"
              /\ redirectData' = << [target |-> rec.originalUrl, slug |-> rec.slug] >>
              /\ timer' = << rec.originalUrl >>
              /\ (rec.id \in Ids(L) => rec.originalUrl = L[FirstPos(L, rec.id)].originalUrl)
      /\ (navigated = <<>> /\ navigated' # <<>>) =>
           /\ mode = "REDIRECT_PROCESS"
           /\ navigated' = << [url |-> redirectData[1].target, how |-> "replace"] >> ]_vars

C10_Witness ==
  /\ navigated # <<>>
  /\ match # <<>>
  /\ match[1].id \in Ids(B) \cap Ids(L)
  /\ B[FirstPos(B, match[1].id)].originalUrl # navigated[1].url

\* the clicks the local store holds for id
ClicksOf(stored, id) == stored[FirstPos(stored, id)].clicks

\* C11: a non-empty fragment that no record's slug equals ends in NOT_FOUND,
\* with no click counted and no navigation scheduled
C11_UnmatchedNotFound ==
  [][ (Resumes /\ hash \in DOMAIN ExpectedText
               /\ ~HasSlug(mergedLinks', ExpectedText[hash])) =>
        /\ mode' = "NOT_FOUND" /\ pc' = "done"
        /\ store' = store /\ incCalls' = 0
        /\ timer' = <<>> /\ navigated' = <<>> ]_vars

\* C12: a fragment that cannot be percent-decoded ends in NOT_FOUND
C12_MalformedNotFound ==
  [][ (Resumes /\ hash \in MalformedHashes) => mode' = "NOT_FOUND" ]_vars

\* the page starts over: fresh state, initApp at its fetch with a fresh read
\* of the local store
Restarted ==
  /\ mode' = "BOOTSTRAP" /\ pc' = "fetching"
  /\ resp' = <<>> /\ links' = <<>> /\ match' = <<>> /\ ~resolved'
  /\ mergedLinks' = store /\ localRead' = store

\* C13 as claimed: in DASHBOARD every change of the fragment, to whatever
\* value, restarts the sequence from BOOTSTRAP
C13_AnyChangeRestarts ==
  [][ (DashboardShown /\ hash' # hash) => Restarted ]_vars

\* C14: every run that enters REDIRECT_PROCESS leaves the matched id in the
\* local store with its clicks one higher than before
C14_ClickPersisted ==
  [][ (Resumes /\ mode' = "REDIRECT_PROCESS") =>
        /\ match'[1].id \in Ids(store')
        /\ match'[1].id \in Ids(store) =>
             ClicksOf(store', match'[1].id) = ClicksOf(store, match'[1].id) + 1 ]_vars

\* C19: submitting the form with a slug some record of the local store has
\* is rejected with the duplicate-slug error: nothing is persisted, no id is
\* used up and the local store is unchanged
C19_DuplicateSlugRejected ==
  [][ \A s \in FormSlugs, u \in FormUrls, t \in 1..MaxTime :
        (HandleSubmit(s, u, t) /\ HasSlug(store, s)) =>
          /\ error' = "This short code is already taken. Try regenerating."
          /\ store' = store
          /\ links' = links
          /\ nextId' = nextId ]_vars

C19_Witness ==
  /\ DashboardShown
  /\ error = "This short code is already taken. Try regenerating."
  /\ Len(store) = 1 /\ nextId = 2

\* C15: a record of the local store is the record last saved under its id
\* with clicks raised by the number of incrementClicks calls made for that
\* id since, whatever calls were made for other ids in between
C15_ClicksCountCalls ==
  \A id \in StoreIds :
    id \in Ids(Stored) =>
      /\ hist[id].link # <<>>
      /\ Stored[FirstPos(Stored, id)] =
           [hist[id].link[1] EXCEPT !.clicks = @ + hist[id].n]

C15_Witness ==
  /\ {1, 2} \subseteq Ids(Stored)
  /\ hist[1].n = 2 /\ hist[2].n = 1
  /\ Stored[FirstPos(Stored, 1)].clicks = 2

\* C16: incrementClicks for an id the local store does not hold changes
\* nothing: same stored value, no record for the id
C16_AbsentIdNoOp ==
  [][ \A id \in StoreIds :
        (StoreIncrementClicks(id) /\ id \notin Ids(Stored)) =>
          /\ store' = store /\ decodable' = decodable
          /\ id \notin Ids(Stored') ]_vars

C16_Witness ==
  /\ ret.op = "incrementClicks"
  /\ ret.id \notin Ids(ret.links)
  /\ Len(ret.links) = 2
  /\ store = ret.links /\ decodable.links

\* C17: saveLink puts a record with a new id in front of the previous
\* records, and puts a record with a stored id in the old one's place
C17_InsertOrReplace ==
  [][ \A link \in StoreRecords :
        StoreSaveLink(link) =>
          IF link.id \in Ids(Stored)
          THEN /\ Len(Stored') = Len(Stored)
               /\ \A i \in 1..Len(Stored) :
                    Stored'[i] = IF i = FirstPos(Stored, link.id) THEN link
                                 ELSE Stored[i]
          ELSE /\ Len(Stored') = Len(Stored) + 1
               /\ Stored'[1] = link
               /\ \A i \in 1..Len(Stored) : Stored'[i + 1] = Stored[i] ]_vars

C17_Witness ==
  /\ ret.op = "saveLink"
  /\ Len(ret.links) = 2 /\ Len(Stored) = 2
  /\ ret.links[2].id = ret.id
  /\ Stored[2].id = ret.id /\ Stored[2] # ret.links[2]
  /\ Stored[1] = ret.links[1]

\* C18: deleteLink removes the records with the id and no other: the rest
\* stay as they were and in their order; an absent id changes nothing
C18_DeleteOnlyThatId ==
  [][ \A id \in StoreIds :
        StoreDeleteLink(id) =>
          /\ id \notin Ids(Stored')
          /\ Stored' = SelectSeq(Stored, LAMBDA l : l.id # id)
          /\ id \notin Ids(Stored) => Stored' = Stored ]_vars

C18_Witness ==
  /\ ret.op = "deleteLink"
  /\ Len(ret.links) = 2 /\ ret.links[1].id = ret.id
  /\ Stored = << ret.links[2] >>

\* C20: no call ends in an exception, and on a stored text that cannot be
\* decoded getLinks returns [], getSettings returns {} and saveLink,
\* deleteLink, incrementClicks and checkSlugExists do what they do on an
\* empty store
C20_DecodeFailureIsEmpty ==
  [][ /\ ~ret'.threw
      /\ ~decodable.links =>
           /\ StoreGetLinks => ret'.links = <<>>
           /\ \A link \in StoreRecords : StoreSaveLink(link) => Stored' = <<link>>
           /\ \A id \in StoreIds : StoreDeleteLink(id) => Stored' = <<>>
           /\ \A id \in StoreIds : StoreIncrementClicks(id) => Stored' = <<>>
           /\ \A slug \in FormSlugs : StoreCheckSlugExists(slug) => ~ret'.bool
      /\ (~decodable.settings /\ StoreGetSettings) => ret'.settings = {} ]_vars

C20_Witness ==
  /\ ~decodable.links /\ ~decodable.settings
  /\ store # <<>> /\ settingsStore # {}
  /\ ret.op = "getLinks" /\ ret.links = <<>> /\ ~ret.threw
  /\ calls = 2

LastPos(seq, id) ==
  CHOOSE i \in 1..Len(seq) : seq[i].id = id /\ \A j \in (i+1)..Len(seq) : seq[j].id # id

\* C21: the resolver runs only once the fetch has settled, and on the
\* snapshot merged from that fetch: before the fetch settles nothing is
\* resolved, and a resolution's result is find() on the merged view that
\* holds the ids of the settled baseline and of the local store
C21_ResolveAfterFetch ==
  /\ ~Bootstrapped =>
       /\ ~resolved /\ match = <<>> /\ timer = <<>> /\ incCalls = 0
       /\ mode = "BOOTSTRAP"
  /\ resolved =>
       /\ Bootstrapped
       /\ Ids(mergedLinks) = Ids(B) \cup Ids(L)
       /\ hash \in DOMAIN ExpectedText =>
            match = Find(mergedLinks, ExpectedText[hash])

C21_Witness ==
  /\ resolved /\ match # <<>>
  /\ match[1].id \in Ids(B) \ Ids(L)
  /\ L # <<>>

\* C22: an id that was created and then deleted from the local store and
\* that the baseline holds is in the next bootstrap's merged view with the
\* baseline's fields, and its slug finds a record
C22_DeletedBaselineIdReturns ==
  Bootstrapped =>
    \A id \in Ids(B) :
      (id < nextId /\ id \notin Ids(L)) =>
        /\ id \in Ids(mergedLinks)
        /\ mergedLinks[FirstPos(mergedLinks, id)] = B[LastPos(B, id)]
        /\ Find(mergedLinks, B[LastPos(B, id)].slug) # <<>>

C22_Witness ==
  /\ loads = 2 /\ Bootstrapped
  /\ nextId > 1 /\ 1 \notin Ids(L) /\ 1 \in Ids(B)
  /\ mode = "REDIRECT_PROCESS" /\ match[1].id = 1
  /\ match[1] = B[LastPos(B, 1)]

\* C23: the clicks of a record that stays in the local store never go
\* down, are never negative and change only by the increment of the run
\* that matched the record; a new record starts at 0
C23_ClicksMonotone ==
  [][ /\ \A id \in Ids(store) \cap Ids(store') :
           /\ ClicksOf(store', id) >= ClicksOf(store, id)
           /\ ClicksOf(store', id) >= 0
           /\ ClicksOf(store', id) # ClicksOf(store, id) =>
                /\ Resumes /\ mode' = "REDIRECT_PROCESS" /\ match'[1].id = id
                /\ ClicksOf(store', id) = ClicksOf(store, id) + 1
      /\ \A id \in Ids(store') \ Ids(store) : ClicksOf(store', id) = 0 ]_vars

C23_Witness ==
  /\ mode = "REDIRECT_PROCESS"
  /\ match[1].id \in Ids(store)
  /\ ClicksOf(store, match[1].id) = 1
  /\ Len(store) = 2

\* C24: a run cannot be left in BOOTSTRAP: while the mode is BOOTSTRAP the
\* continuation of initApp that sets the mode is still to come, and once
\* initApp has ended the mode is one of the three others
C24_BootstrapIsLeft ==
  /\ mode = "BOOTSTRAP" => pc = "fetching"
  /\ pc # "fetching" => mode \in {"DASHBOARD", "REDIRECT_PROCESS", "NOT_FOUND"}

\* C25: in a run that enters REDIRECT_PROCESS the side effects are, in this
\* order, the click increment, the analytics notification exactly when an
\* analytics id is set, the scheduling of the navigation, and then the
\* navigation itself; no navigation happens in any other way
C25_RedirectOrder ==
  /\ mode = "REDIRECT_PROCESS" =>
       effects = <<"incrementClicks">>
                   \o (IF GoogleAnalyticsId(loadedSettings) # <<>>
                       THEN <<"trackRedirect">> ELSE <<>>)
                   \o <<"setTimeout">>
                   \o (IF navigated # <<>> THEN <<"replace">> ELSE <<>>)
  /\ navigated # <<>> => mode = "REDIRECT_PROCESS"

\* the click of the current run whose navigation is still waiting for its
\* delay
Pending(id) == IF timer # <<>> /\ match[1].id = id THEN 1 ELSE 0

\* a timer or a navigation is always that of the current run: what a run
\* abandoned by a restart had scheduled is never performed
OnlyCurrentRunNavigates ==
  /\ timer # <<>> =>
       /\ mode = "REDIRECT_PROCESS" /\ match # <<>> /\ navigated = <<>>
       /\ timer[1] = match[1].originalUrl
  /\ navigated # <<>> =>
       /\ mode = "REDIRECT_PROCESS" /\ match # <<>>
       /\ navigated[1].url = match[1].originalUrl

\* C30 as claimed: abandoned runs never navigate, and for every record of
\* the local store the clicks persisted equal the navigations performed
\* (the click of a run still in its delay set aside)
C30_ClicksEqualNavigations ==
  /\ OnlyCurrentRunNavigates
  /\ \A id \in Ids(store) : ClicksOf(store, id) = navs[id] + Pending(id)

\* C30: abandoned runs never navigate, and for every record of the local
\* store the navigations performed never exceed the clicks persisted: each
\* navigation was preceded by its click, while a run abandoned during its
\* delay leaves a click without a navigation
C30_ClicksAtLeastNavigations ==
  /\ OnlyCurrentRunNavigates
  /\ \A id \in Ids(store) : ClicksOf(store, id) >= navs[id] + Pending(id)

C30_Witness ==
  /\ loads = 2 /\ mode = "BOOTSTRAP" /\ timer = <<>> /\ navigated = <<>>
  /\ 1 \in Ids(store)
  /\ ClicksOf(store, 1) = 1 /\ navs[1] = 0

\* C26: every non-empty customBaseUrl the settings form has stored does not
\* end with '/' and starts with "http://" or "https://"
C26_BaseUrlNormalized ==
  \A p \in settingsStore :
    (p[1] = "customBaseUrl" /\ p[2] # <<>>) =>
      /\ ~EndsWith(p[2], SLASH)
      /\ StartsWith(p[2], HttpScheme) \/ StartsWith(p[2], HttpsScheme)

\* C27: on the dashboard the ids shown are those of the baseline fetched at
\* bootstrap and those now in the local store, and no other
C27_ViewIsBaselinePlusStore ==
  DashboardShown => Ids(links) = Ids(B) \cup Ids(store)

RepeatsSlug(seq) == \E i, j \in 1..Len(seq) : i # j /\ seq[i].slug = seq[j].slug

\* C28: calls of saveLink, deleteLink and incrementClicks on a local store
\* without duplicate ids leave it without duplicate ids
C28_NoDuplicateIds == ~RepeatsId(Stored)

C28_Witness ==
  /\ calls = MaxCalls
  /\ ret.op = "saveLink" /\ ret.id \in Ids(ret.links)
  /\ Len(Stored) = 2
  /\ \E id \in Ids(Stored) : hist[id].n >= 1

\* C29: creations through the form, deletions and click increments, from
\* an empty local store, never leave two stored records with one slug
C29_NoDuplicateSlugs == ~RepeatsSlug(store)

C29_Witness ==
  /\ Len(store) = 2 /\ loads = 2
  /\ mode = "REDIRECT_PROCESS"
  /\ \E i \in 1..2 : store[i].clicks = 1

====
